---- MODULE Spec2Model ----
(***************************************************************************)
(* A model of pm-esd/crontab (crontab.go): the field parser parsePart, the *)
(* schedule assembler parseSchedule, the tick matcher job.tick and the     *)
(* scheduler (ticker, loop goroutine, AddJob / Shutdown / Clear / RunAll). *)
(*                                                                         *)
(* A Go string is a sequence of one-character strings; a Go map used as a  *)
(* set (map[int]struct{}) is a set of integers.                            *)
(***************************************************************************)
EXTENDS Integers, Sequences, FiniteSets, Bags, TLC

VARIABLES
    text, fld, res,              \* one call of parsePart: its arguments and result
    expr, parsed, now, due,      \* one call of parseSchedule, then of job.tick
    jobs,                        \* Crontab.jobs
    start, fired, stopped,       \* the ticker: when it was made, its firings so far,
    tickerC,                     \*   whether it is stopped, its channel C
    loop, running,               \* the loop goroutine, the job goroutines
    client, lastOp               \* the caller of the API and its last call

partVars  == <<text, fld, res>>
schedVars == <<expr, parsed, now, due>>
cronVars  == <<jobs, start, fired, stopped, tickerC, loop, running, client, lastOp>>
vars      == <<text, fld, res, expr, parsed, now, due,
               jobs, start, fired, stopped, tickerC, loop, running, client, lastOp>>

(***************************************************************************)
(* The values of the variables before anything is called.                  *)
(***************************************************************************)
\* parsePart has not been called
NotCalled == [out |-> "none", r |-> {}, err |-> "nil"]

\* job{}: every map nil
EmptyJob ==
    [second |-> {}, min |-> {}, hour |-> {}, day |-> {}, month |-> {}, dayOfWeek |-> {}]

\* parseSchedule has not been called
NoSchedule == [out |-> "none", j |-> EmptyJob, err |-> "nil"]

\* a nil callable
NilFn == [kind |-> "nil", in |-> <<>>]

NoJob == [sched |-> EmptyJob, fn |-> NilFn, args |-> <<>>]

\* the loop goroutine blocked in `range c.ticker.C`
LoopWaiting == [pc |-> "recv", t |-> 0, js |-> <<>>, i |-> 0]

\* the caller is between two calls, n calls made; during a call that assigns
\* c.jobs: op is the method, next the slice being stored, job the job added
ClientIdle(n) == [pc |-> "idle", n |-> n, op |-> "none", next |-> <<>>, job |-> NoJob]

\* no method of the Crontab has been called
NoCall == [op |-> "none", ret |-> "none", job |-> NoJob, wasStopped |-> FALSE]

PartIdle == text = <<>> /\ fld = 1 /\ res = NotCalled

SchedIdle == expr = <<>> /\ parsed = NoSchedule /\ now = <<>> /\ due = <<>>

CronIdle ==
    /\ jobs = <<>> /\ start = 0 /\ fired = 0 /\ stopped = FALSE /\ tickerC = <<>>
    /\ loop = LoopWaiting /\ running = EmptyBag
    /\ client = ClientIdle(0) /\ lastOp = NoCall

(***************************************************************************)
(* Characters and strings.                                                 *)
(***************************************************************************)
DigitChars == <<"0", "1", "2", "3", "4", "5", "6", "7", "8", "9">>

IsDigit(c) == \E i \in 1..10 : DigitChars[i] = c

DigitVal(c) == (CHOOSE i \in 1..10 : DigitChars[i] = c) - 1

\* \s of Go's regexp syntax: [\t\n\f\r ]
IsSpace(c) == c \in {" ", "\t", "\n", "\f", "\r"}

AllDigits(s) == Len(s) >= 1 /\ \A i \in 1..Len(s) : IsDigit(s[i])

RECURSIVE DecVal(_)
\* the value of a digit string, as strconv.Atoi computes it (no overflow
\* for the lengths that occur here)
DecVal(s) ==
    IF Len(s) = 0 THEN 0
    ELSE 10 * DecVal(SubSeq(s, 1, Len(s) - 1)) + DigitVal(s[Len(s)])

\* strconv.Atoi: an optional sign, then one or more decimal digits
Atoi(s) ==
    LET signed == Len(s) >= 1 /\ s[1] \in {"+", "-"}
        body   == IF signed THEN SubSeq(s, 2, Len(s)) ELSE s
    IN  IF AllDigits(body)
        THEN [ok |-> TRUE,
              val |-> IF signed /\ s[1] = "-" THEN 0 - DecVal(body) ELSE DecVal(body)]
        ELSE [ok |-> FALSE, val |-> 0]

RECURSIVE Split(_, _)
\* strings.Split(s, sep) for a one-character separator: the pieces between
\* the separators, empty pieces included; Split("", sep) is [""]
Split(s, sep) ==
    IF \A i \in 1..Len(s) : s[i] # sep THEN <<s>>
    ELSE LET k == CHOOSE i \in 1..Len(s) :
                      s[i] = sep /\ \A h \in 1..(i - 1) : s[h] # sep
         IN  <<SubSeq(s, 1, k - 1)>> \o Split(SubSeq(s, k + 1, Len(s)), sep)

(***************************************************************************)
(* The regular expressions of crontab.go:179-183.                          *)
(***************************************************************************)
RECURSIVE matchSpacesFrom(_, _)
matchSpacesFrom(s, i) ==
    IF i > Len(s) THEN <<>>
    ELSE IF IsSpace(s[i])
         THEN IF i > 1 /\ IsSpace(s[i - 1])
              THEN matchSpacesFrom(s, i + 1)
              ELSE <<" ">> \o matchSpacesFrom(s, i + 1)
         ELSE <<s[i]>> \o matchSpacesFrom(s, i + 1)

\* the replacement with \s for \s+ : every white-space character becomes a space
matchSpacesEach(s) == [i \in 1..Len(s) |-> IF IsSpace(s[i]) THEN " " ELSE s[i]]

\* matchSpaces.ReplaceAllLiteralString(s, " "), matchSpaces = \s+ :
\* every maximal run of white space becomes one space
matchSpaces(s) == matchSpacesFrom(s, 1)

\* the length of the longest run of digits of s that starts at position i
DigitRun(s, i) ==
    CHOOSE n \in 0..(Len(s) - i + 1) :
        /\ \A h \in i..(i + n - 1) : IsDigit(s[h])
        /\ (i + n > Len(s) \/ ~IsDigit(s[i + n]))

\* matchN.FindStringSubmatch(s), matchN = (.*)/(\d+), not anchored: the
\* leftmost match, in which .* (any characters but a newline) is as long as
\* it can be, so the "/" is the last one that a digit follows, and \d+ takes
\* the whole run of digits after it. What follows the digits is not matched.
\* <<>> stands for nil (no match), else <<whole, group 1, group 2>>.
matchN(s) ==
    LET slashes == {q \in 1..(Len(s) - 1) : s[q] = "/" /\ IsDigit(s[q + 1])}
        LineStart(q) ==
            LET nls == {h \in 1..(q - 1) : s[h] = "\n"}
            IN  IF nls = {} THEN 1 ELSE (CHOOSE h \in nls : \A g \in nls : g <= h) + 1
    IN  IF slashes = {} THEN <<>>
        ELSE LET first == CHOOSE q \in slashes : \A g \in slashes : q <= g
                 p     == LineStart(first)
                 cands == {q \in slashes : LineStart(q) = p}
                 q     == CHOOSE c \in cands : \A g \in cands : g <= c
                 n     == DigitRun(s, q + 1)
             IN  <<SubSeq(s, p, q + n), SubSeq(s, p, q - 1), SubSeq(s, q + 1, q + n)>>

\* matchRange.FindStringSubmatch(s), matchRange = ^(\d+)-(\d+)$ :
\* <<>> for nil, else <<whole, group 1, group 2>>
matchRange(s) ==
    LET dashes == {k \in 2..(Len(s) - 1) :
                      /\ s[k] = "-"
                      /\ AllDigits(SubSeq(s, 1, k - 1))
                      /\ AllDigits(SubSeq(s, k + 1, Len(s)))}
    IN  IF dashes = {} THEN <<>>
        ELSE LET k == CHOOSE d \in dashes : TRUE
             IN  <<s, SubSeq(s, 1, k - 1), SubSeq(s, k + 1, Len(s))>>

(***************************************************************************)
(* parsePart (crontab.go:236-296).  A call ends in one of three ways:      *)
(*   out = "ok"        it returns the set r and a nil error;               *)
(*   out = "error"     it returns nil and an error (err names the format   *)
(*                     string of the fmt.Errorf that built it);            *)
(*   out = "diverges"  the loop of line 263 never ends (i += 0).           *)
(***************************************************************************)
Returned(r) == [out |-> "ok", r |-> r, err |-> "nil"]

Failed(e) == [out |-> "error", r |-> {}, err |-> e]

Diverges == [out |-> "diverges", r |-> {}, err |-> "nil"]


RECURSIVE CountLoopExclusive(_, _, _)
\* the loop with i < hi for i <= hi
CountLoopExclusive(i, hi, r) ==
    IF i < hi THEN CountLoopExclusive(i + 1, hi, r \cup {i}) ELSE r

RECURSIVE CountLoop(_, _, _)
\* for i := lo; i <= hi; i++ { r[i] = struct{}{} }      (lines 241-243, 278-280)
CountLoop(i, hi, r) ==
    IF i <= hi THEN CountLoop(i + 1, hi, r \cup {i}) ELSE r

RECURSIVE StepLoopExclusive(_, _, _, _)
\* the loop with i < localMax for i <= localMax
StepLoopExclusive(i, hi, n, r) ==
    IF i < hi THEN StepLoopExclusive(i + n, hi, n, r \cup {i}) ELSE r

RECURSIVE StepLoop(_, _, _, _)
\* for i := localMin; i <= localMax; i += n { r[i] = struct{}{} }, n > 0
\* (lines 263-265)
StepLoop(i, hi, n, r) ==
    IF i <= hi THEN StepLoop(i + n, hi, n, r \cup {i}) ELSE r

\* lines 247-267: the step form, m = matchN.FindStringSubmatch(s), not nil
parseStep(m, min, max) ==
    LET custom == m[2] # <<>> /\ m[2] # <<"*">>
        rng    == matchRange(m[2])
    IN  IF custom /\ rng = <<>> THEN Failed("Unable to parse %s part in %s")
        ELSE LET localMin == IF custom THEN DecVal(rng[2]) ELSE min
                 localMax == IF custom THEN DecVal(rng[3]) ELSE max
                 n        == DecVal(m[3])
             IN  IF custom /\ (localMin < min \/ localMax > max)
                 THEN Failed("Out of range for %s in %s")
                 ELSE IF n = 0 /\ localMin <= localMax
                      THEN Diverges
                      ELSE Returned(StepLoop(localMin, localMax, n, {}))

RECURSIVE parseList(_, _, _, _, _)
\* lines 271-295: the terms parts[k..] of the comma list, r the set so far
parseList(parts, k, min, max, r) ==
    IF k > Len(parts)
    THEN IF Cardinality(r) = 0 THEN Failed("Unable to parse %s") ELSE Returned(r)
    ELSE LET x   == parts[k]
             rng == matchRange(x)
             a   == Atoi(x)
         IN  IF rng # <<>>
             THEN LET localMin == DecVal(rng[2])
                      localMax == DecVal(rng[3])
                  IN  IF localMin < min \/ localMax > max
                      THEN Failed("Out of range for %s in %s")
                      ELSE parseList(parts, k + 1, min, max,
                                     CountLoop(localMin, localMax, r))
             ELSE IF a.ok
                  THEN IF a.val < min \/ a.val > max
                       THEN Failed("Out of range for %d in %s")
                       ELSE parseList(parts, k + 1, min, max, r \cup {a.val})
                  ELSE Failed("Unable to parse %s part in %s")

parsePart(s, min, max) ==
    IF s = <<"*">> THEN Returned(CountLoop(min, max, {}))
    ELSE IF matchN(s) # <<>> THEN parseStep(matchN(s), min, max)
         ELSE parseList(Split(s, ","), 1, min, max, {})

(***************************************************************************)
(* The six fields and their bounds (crontab.go:193-218).                   *)
(***************************************************************************)
FieldNames == <<"second", "min", "hour", "day", "month", "dayOfWeek">>

FieldMin == <<0, 0, 0, 1, 1, 0>>

FieldMax == <<59, 59, 23, 31, 12, 6>>

Fields == 1..6

(***************************************************************************)
(* Field texts given to parsePart.                                         *)
(***************************************************************************)
MaxPieces == 3

MaxTerms == 2

\* the decimal numeral of n, 0 <= n <= 99
NumLit(n) ==
    IF n < 10 THEN <<DigitChars[n + 1]>>
    ELSE <<DigitChars[(n \div 10) + 1], DigitChars[(n % 10) + 1]>>

\* numbers inside every field's bound (1, 2), at a bound, and outside
\* some or all of the bounds (0, 7, 59, 70)
Nums == {0, 1, 2, 7, 59, 70}

Pieces == {<<"*">>, <<"/">>, <<"-">>, <<",">>, <<"x">>} \cup {NumLit(n) : n \in Nums}

RECURSIVE PieceTexts(_)
\* every text made of at most n pieces
PieceTexts(n) ==
    IF n = 0 THEN {<<>>}
    ELSE LET shorter == PieceTexts(n - 1)
         IN  shorter \cup {t \o p : t \in shorter, p \in Pieces}

RangeLit(a, b) == NumLit(a) \o <<"-">> \o NumLit(b)

RangeLits == {RangeLit(a, b) : a \in Nums, b \in Nums}

\* <base>/<step><rest>: every base, step and rest, well formed or not
StepTexts ==
    {base \o <<"/">> \o NumLit(n) \o rest :
        base \in {<<>>, <<"*">>, <<"x">>, <<"1", ",", "*">>} \cup RangeLits,
        n \in {0, 1, 2, 7},
        rest \in {<<>>, <<"x">>, <<",", "1">>}}

Terms == {NumLit(n) : n \in Nums} \cup {<<"x">>, <<"+", "1">>}
             \cup {RangeLit(a, b) : a \in {0, 2, 7, 70}, b \in {0, 2, 7, 70}}

RECURSIVE ListTexts(_)
\* every comma list of 1..n terms
ListTexts(n) ==
    IF n = 1 THEN Terms
    ELSE LET shorter == ListTexts(n - 1)
         IN  shorter \cup {t \o <<",">> \o x : t \in shorter, x \in Terms}

\* the field texts of the README (part_000:57-76)
ReadmeTexts ==
    { <<"*">>, <<"1", "0">>, <<"1", "5">>, <<"1">>, <<"0">>, <<"1", "2">>,
      <<"1", "0", ",", "1", "5", ",", "1", "9">>,
      <<"1", "-", "1", "5">>,
      <<"0", "-", "5", ",", "1", "0">>,
      <<"1", ",", "2">>,
      <<"*", "/", "2">>, <<"*", "/", "3">>, <<"*", "/", "5">>,
      <<"1", "-", "5", "9", "/", "2">> }

Texts == PieceTexts(MaxPieces) \cup StepTexts \cup ListTexts(MaxTerms) \cup ReadmeTexts

(***************************************************************************)
(* Specification SpecPart: one call parsePart(text, min, max) with the     *)
(* bound of field fld.                                                     *)
(***************************************************************************)
InitPart ==
    /\ text \in Texts
    /\ fld \in Fields
    /\ res = NotCalled
    /\ SchedIdle
    /\ CronIdle

CallParsePart ==
    /\ res.out = "none"
    /\ res' = parsePart(text, FieldMin[fld], FieldMax[fld])
    /\ UNCHANGED <<text, fld, schedVars, cronVars>>

NextPart == CallParsePart

SpecPart == InitPart /\ [][NextPart]_vars

(***************************************************************************)
(* The grammar of a field as the specification words it, for stating the   *)
(* claims about parsePart.                                                 *)
(***************************************************************************)
\* <low>-<high>
IsRange(s) ==
    \E k \in 2..(Len(s) - 1) :
        s[k] = "-" /\ AllDigits(SubSeq(s, 1, k - 1)) /\ AllDigits(SubSeq(s, k + 1, Len(s)))

RangeLow(s) == DecVal(SubSeq(s, 1, (CHOOSE k \in 1..Len(s) : s[k] = "-") - 1))

RangeHigh(s) == DecVal(SubSeq(s, (CHOOSE k \in 1..Len(s) : s[k] = "-") + 1, Len(s)))

\* the position of the "/" of a field that is exactly <base>/<step>, base
\* `*` or a range, step a digit string; 0 if the field is not of that form
StepSlash(s) ==
    LET ks == {k \in 2..(Len(s) - 1) :
                  /\ s[k] = "/"
                  /\ AllDigits(SubSeq(s, k + 1, Len(s)))
                  /\ (SubSeq(s, 1, k - 1) = <<"*">> \/ IsRange(SubSeq(s, 1, k - 1)))}
    IN  IF ks = {} THEN 0 ELSE CHOOSE k \in ks : TRUE

IsStepForm(s) == StepSlash(s) # 0

StepBase(s) == SubSeq(s, 1, StepSlash(s) - 1)

StepOf(s) == DecVal(SubSeq(s, StepSlash(s) + 1, Len(s)))

\* a comma list of integers and ranges
IsListForm(s) ==
    LET terms == Split(s, ",")
    IN  \A i \in 1..Len(terms) : AllDigits(terms[i]) \/ IsRange(terms[i])

\* the integers and range endpoints written in a term
Endpoints(term) ==
    IF IsRange(term) THEN {RangeLow(term), RangeHigh(term)}
    ELSE IF AllDigits(term) THEN {DecVal(term)} ELSE {}

\* the integers and range endpoints written in a well-formed field: in the
\* terms of a list, or in the base of a step form
Written(s) ==
    IF IsStepForm(s) THEN Endpoints(StepBase(s))
    ELSE IF IsListForm(s)
         THEN LET terms == Split(s, ",")
              IN  UNION {Endpoints(terms[i]) : i \in 1..Len(terms)}
         ELSE {}

InBound(v, f) == FieldMin[f] <= v /\ v <= FieldMax[f]

(***************************************************************************)
(* Claims about parsePart, checked under SpecPart.                         *)
(***************************************************************************)
\* C3: whenever parsePart returns without error, the returned set is
\* non-empty and every member lies in [min,max]; a field whose set would be
\* empty is reported as an error instead.
C3_ReturnedSetNonEmptyInBounds ==
    res.out = "ok" => /\ res.r # {}
                      /\ \A v \in res.r : InBound(v, fld)

\* C4: parsePart returns an error whenever a bare integer or a range
\* endpoint (low or high) written in the field, in list form or as the base
\* of a step form, is below min or above max.
C4_OutOfBoundEndpointIsError ==
    (res.out # "none" /\ \E v \in Written(text) : ~InBound(v, fld))
        => res.out = "error"

\* the set the specification gives a step form: low, low+step, low+2*step,
\* ... not exceeding high
StepSet(low, high, step) ==
    {low + k * step : k \in 0..(high - low)} \cap (low..high)

\* C5: for a step-form field <base>/<step> that parsePart accepts, the result
\* is exactly {low + k*step : k >= 0, low + k*step <= high}, with [low,high]
\* = [min,max] for base `*` and the written range otherwise; `*/2` over
\* [0,59] is the even numbers 0..58 and `1-59/2` the odd numbers 1..59.
C5_StepFormResult ==
    /\ (IsStepForm(text) /\ res.out = "ok") =>
           LET star == StepBase(text) = <<"*">>
               low  == IF star THEN FieldMin[fld] ELSE RangeLow(StepBase(text))
               high == IF star THEN FieldMax[fld] ELSE RangeHigh(StepBase(text))
           IN  res.r = StepSet(low, high, StepOf(text))
    /\ (text = <<"*", "/", "2">> /\ fld \in {1, 2} /\ res.out # "none") =>
           res = Returned({2 * k : k \in 0..29})
    /\ (text = <<"1", "-", "5", "9", "/", "2">> /\ fld \in {1, 2} /\ res.out # "none") =>
           res = Returned({2 * k + 1 : k \in 0..29})

C5_Witness ==
    /\ text = <<"1", "-", "5", "9", "/", "2">>
    /\ fld = 2
    /\ res.out = "ok"
    /\ 59 \in res.r /\ 1 \in res.r /\ 2 \notin res.r

(***************************************************************************)
(* parseSchedule (crontab.go:186-233) and job.tick (crontab.go:151-176).   *)
(* A job's schedule is the record of its six sets; a nil map is the empty  *)
(* set.  A tick is the record of the six components of an instant.         *)
(***************************************************************************)
\* the switch without its second case
daySwitchOneSided(j) ==
    IF Cardinality(j.day) < 31 /\ Cardinality(j.dayOfWeek) = 7
    THEN [j EXCEPT !.dayOfWeek = {}]
    ELSE j

\* lines 223-230: the switch on the sizes of the two day sets
daySwitch(j) ==
    IF Cardinality(j.day) < 31 /\ Cardinality(j.dayOfWeek) = 7
    THEN [j EXCEPT !.dayOfWeek = {}]
    ELSE IF Cardinality(j.dayOfWeek) < 7 /\ Cardinality(j.day) = 31
         THEN [j EXCEPT !.day = {}]
         ELSE j

RECURSIVE parseFields(_, _, _)
\* lines 193-232: the fields parts[k..6] in turn, j the job filled so far
parseFields(parts, k, j) ==
    IF k > 6 THEN [out |-> "ok", j |-> daySwitch(j), err |-> "nil"]
    ELSE LET p == parsePart(parts[k], FieldMin[k], FieldMax[k])
         IN  IF p.out = "ok"
             THEN parseFields(parts, k + 1, [j EXCEPT ![FieldNames[k]] = p.r])
             ELSE [out |-> p.out, j |-> j, err |-> p.err]

parseSchedule(s) ==
    LET parts == Split(matchSpaces(s), " ")
    IN  IF Len(parts) # 6
        THEN [out |-> "error", j |-> EmptyJob,
              err |-> "Schedule string must have five components like * * * * *"]
        ELSE parseFields(parts, 1, EmptyJob)

\* job.tick requiring the day of the month and the day of the week both
tickBothDays(j, t) ==
    IF t.second \notin j.second THEN FALSE
    ELSE IF t.min \notin j.min THEN FALSE
    ELSE IF t.hour \notin j.hour THEN FALSE
    ELSE IF ~(t.day \in j.day) \/ ~(t.dayOfWeek \in j.dayOfWeek) THEN FALSE
    ELSE IF t.month \notin j.month THEN FALSE
    ELSE TRUE

tick(j, t) ==
    IF t.second \notin j.second THEN FALSE
    ELSE IF t.min \notin j.min THEN FALSE
    ELSE IF t.hour \notin j.hour THEN FALSE
    ELSE IF ~(t.day \in j.day) /\ ~(t.dayOfWeek \in j.dayOfWeek) THEN FALSE
    ELSE IF t.month \notin j.month THEN FALSE
    ELSE TRUE

(***************************************************************************)
(* Schedule expressions given to parseSchedule, and instants.              *)
(***************************************************************************)
MaxSepRun == 2

Star == <<"*">>

Blank == <<" ">>

\* a step form over a reversed range: parsePart returns the empty set
EmptyStep == <<"7", "-", "2", "/", "2">>

SecondPool == {Star, <<"0">>, EmptyStep}

MinPool == {Star, <<"*", "/", "2">>}

HourPool == {Star, <<"1", "2">>}

DayPool == {Star, <<"1">>, <<"1", "-", "3", "1">>, EmptyStep, <<"x">>}

MonthPool == {Star, <<"1">>}

DayOfWeekPool == {Star, <<"1">>, <<"1", ",", "2">>, <<"0", "-", "6">>, <<"7">>}

FieldChoices ==
    {<<a, b, c, d, e, f>> : a \in SecondPool, b \in MinPool, c \in HourPool,
                            d \in DayPool, e \in MonthPool, f \in DayOfWeekPool}

RECURSIVE SepRuns(_)
\* the runs of 1..n white-space characters
SepRuns(n) ==
    IF n = 1 THEN {<<" ">>, <<"\t">>}
    ELSE LET shorter == SepRuns(n - 1)
         IN  shorter \cup {r \o <<c>> : r \in shorter, c \in {" ", "\t"}}

RECURSIVE Join(_, _)
\* strings.Join(fs, sep)
Join(fs, sep) ==
    IF Len(fs) = 0 THEN <<>>
    ELSE IF Len(fs) = 1 THEN fs[1]
         ELSE fs[1] \o sep \o Join(Tail(fs), sep)

Shapes == {"six", "five", "seven", "lead", "trail", "leadfive", "fivetrail"}

Shaped(sh, fs, sep) ==
    CASE sh = "six"   -> Join(fs, sep)
      [] sh = "five"  -> Join(SubSeq(fs, 1, 5), sep)
      [] sh = "seven" -> Join(fs \o <<Star>>, sep)
      [] sh = "lead"  -> sep \o Join(fs, sep)
      [] sh = "trail" -> Join(fs, sep) \o sep
      [] sh = "leadfive"  -> sep \o Join(SubSeq(fs, 1, 5), sep)
      [] sh = "fivetrail" -> Join(SubSeq(fs, 1, 5), sep) \o sep

Exprs ==
    {<<>>} \cup {Shaped(sh, fs, sep) :
                    sh \in Shapes, fs \in FieldChoices, sep \in SepRuns(MaxSepRun)}

\* instants: two values of every component, one of them the value the
\* restricted fields of the pools name; months 1 and 12 have 31 days
Ticks ==
    [second : {0, 59}, min : {0, 31}, hour : {12, 23},
     day : {1, 31}, month : {1, 12}, dayOfWeek : {0, 1}]

(***************************************************************************)
(* Specification SpecSched: one call parseSchedule(expr), then one call of *)
(* job.tick on the job it returned.                                        *)
(***************************************************************************)
InitSched ==
    /\ expr \in Exprs
    /\ parsed = NoSchedule
    /\ now = <<>>
    /\ due = <<>>
    /\ PartIdle
    /\ CronIdle

CallParseSchedule ==
    /\ parsed.out = "none"
    /\ parsed' = parseSchedule(expr)
    /\ UNCHANGED <<expr, now, due, partVars, cronVars>>

CallTick ==
    /\ parsed.out = "ok"
    /\ now = <<>>
    /\ \E t \in Ticks :
           /\ now' = <<t>>
           /\ due' = <<tick(parsed.j, t)>>
    /\ UNCHANGED <<expr, parsed, partVars, cronVars>>

NextSched == CallParseSchedule \/ CallTick

SpecSched == InitSched /\ [][NextSched]_vars

(***************************************************************************)
(* Claims about parseSchedule and job.tick, checked under SpecSched.  What  *)
(* parseSchedule returned is looked at in the state it returned in (now =  *)
(* <<>>): the call of job.tick that may follow leaves expr and parsed as   *)
(* they are.                                                               *)
(***************************************************************************)
\* C1: job.tick is true exactly when second, minute, hour and month are
\* members of their sets and (day-of-month is a member of the day set or
\* day-of-week of the day-of-week set); an empty second, minute, hour or
\* month set makes the result false.
C1_TickIsConjunctionWithDayDisjunction ==
    now # <<>> =>
        LET j == parsed.j
            t == now[1]
        IN  /\ due[1] = (/\ t.second \in j.second
                         /\ t.min \in j.min
                         /\ t.hour \in j.hour
                         /\ t.month \in j.month
                         /\ (t.day \in j.day \/ t.dayOfWeek \in j.dayOfWeek))
            /\ ({} \in {j.second, j.min, j.hour, j.month} => due[1] = FALSE)

\* due through the day-of-week set alone
C1_Witness ==
    /\ now # <<>>
    /\ due = <<TRUE>>
    /\ now[1].day \notin parsed.j.day
    /\ now[1].dayOfWeek \in parsed.j.dayOfWeek
    /\ parsed.j.second = {0}

RECURSIVE Tokens(_)
\* the maximal runs of characters of e that are not white space
Tokens(e) ==
    IF Len(e) = 0 THEN <<>>
    ELSE IF IsSpace(e[1]) THEN Tokens(Tail(e))
         ELSE LET n == CHOOSE k \in 1..Len(e) :
                           /\ \A h \in 1..k : ~IsSpace(e[h])
                           /\ (k = Len(e) \/ IsSpace(e[k + 1]))
              IN  <<SubSeq(e, 1, n)>> \o Tokens(SubSeq(e, n + 1, Len(e)))

\* the number of fields e splits into once its white-space runs are single
\* spaces: its tokens, and an empty field before a leading and after a
\* trailing run
SplitCount(e) ==
    IF Len(e) = 0 THEN 1
    ELSE Len(Tokens(e)) + (IF IsSpace(e[1]) THEN 1 ELSE 0)
                        + (IF IsSpace(e[Len(e)]) THEN 1 ELSE 0)

\* C2: for an accepted expression, a restricted day-of-month set (fewer
\* than 31 members) with a full day-of-week set (7 members) empties the
\* returned day-of-week set; a restricted day-of-week set with a full
\* day-of-month set empties the returned day-of-month set; in every other
\* case both sets are returned as parsed.
C2_DisjunctionRule ==
    (parsed.out = "ok" /\ now = <<>>) =>
        LET day       == parsePart(Tokens(expr)[4], 1, 31).r
            dayOfWeek == parsePart(Tokens(expr)[6], 0, 6).r
            j         == parsed.j
        IN  IF Cardinality(day) < 31 /\ Cardinality(dayOfWeek) = 7
            THEN j.dayOfWeek = {} /\ j.day = day
            ELSE IF Cardinality(dayOfWeek) < 7 /\ Cardinality(day) = 31
                 THEN j.day = {} /\ j.dayOfWeek = dayOfWeek
                 ELSE j.day = day /\ j.dayOfWeek = dayOfWeek

\* a restricted day-of-week with a full day-of-month written as 1-31
C2_Witness ==
    /\ parsed.out = "ok"
    /\ Tokens(expr)[4] = <<"1", "-", "3", "1">>
    /\ Tokens(expr)[6] = <<"1", ",", "2">>
    /\ parsed.j.day = {}
    /\ parsed.j.dayOfWeek = {1, 2}

AllStars(e) == Len(Tokens(e)) = 6 /\ \A k \in 1..6 : Tokens(e)[k] = Star

\* what parsePart("*", min, max) does for the bound of each field
WildcardOf == [f \in Fields |-> parsePart(Star, FieldMin[f], FieldMax[f])]

\* C6: parsePart("*", min, max) is exactly min..max for every field bound;
\* the schedule of `* * * * * *` keeps all six sets full, and job.tick is
\* true of it for every instant.
C6_WildcardIsFull ==
    /\ \A f \in Fields : WildcardOf[f] = Returned(FieldMin[f]..FieldMax[f])
    /\ (AllStars(expr) /\ parsed.out = "ok") =>
           /\ \A f \in Fields : parsed.j[FieldNames[f]] = FieldMin[f]..FieldMax[f]
           /\ (now # <<>> => due = <<TRUE>>)
    /\ (expr = Join(<<Star, Star, Star, Star, Star, Star>>, Blank) /\ parsed.out # "none")
           => parsed.out = "ok"

C6_Witness ==
    /\ expr = Join(<<Star, Star, Star, Star, Star, Star>>, Blank)
    /\ parsed.out = "ok"
    /\ parsed.j.day = 1..31 /\ parsed.j.dayOfWeek = 0..6
    /\ now # <<>> /\ now[1].day = 31 /\ now[1].second = 59
    /\ due = <<TRUE>>

\* C7: parseSchedule accepts an expression only if it splits into exactly
\* six fields once every white-space run is one space; with any other
\* number of fields it returns an error and no schedule; six fields
\* separated by white-space runs of any length parse to what the same
\* fields separated by single spaces parse to.
C7_SixFieldsAnyWhitespace ==
    (parsed.out # "none" /\ now = <<>>) =>
        /\ parsed.out = "ok" => SplitCount(expr) = 6 /\ Len(Tokens(expr)) = 6
        /\ SplitCount(expr) # 6 => parsed.out = "error" /\ parsed.j = EmptyJob
        /\ Len(Tokens(expr)) # 6 => parsed.out = "error"
        /\ (Len(Tokens(expr)) = 6 /\ SplitCount(expr) = 6) =>
               parsed = parseSchedule(Join(Tokens(expr), Blank))

\* fields separated by a run of a space and a tab, accepted
C7_Witness ==
    /\ parsed.out = "ok"
    /\ Len(expr) > Len(Join(Tokens(expr), Blank))
    /\ \E i \in 1..(Len(expr) - 1) : expr[i] = " " /\ expr[i + 1] = "\t"
    /\ parsed.j.hour = {12}

(***************************************************************************)
(* The scheduler (crontab.go:15-133).                                      *)
(*                                                                         *)
(* A time.Time is the number of seconds since Monday 2024-01-01 00:00:00   *)
(* local time.  A callable or an argument is known by its dynamic type.    *)
(***************************************************************************)
\* time.Minute, the period New gives the ticker (crontab.go:45)
Period == 60

\* the firings of the ticker that are followed
MaxFirings == 1

MaxCalls == 2

MonthDays == <<31, 29, 31, 30, 31, 30, 31, 31, 30, 31, 30, 31>>

RECURSIVE MonthAndDay(_, _)
\* the month and the day of the month of day d (from 0) of the year, m the
\* month reached so far
MonthAndDay(d, m) ==
    IF d < MonthDays[m] THEN [month |-> m, day |-> d + 1]
    ELSE MonthAndDay(d - MonthDays[m], m + 1)

\* getTick (crontab.go:299-308)
getTick(t) ==
    LET days == t \div 86400
        md   == MonthAndDay(days % 366, 1)
    IN  [second    |-> t % 60,
         min       |-> (t \div 60) % 60,
         hour      |-> (t \div 3600) % 24,
         day       |-> md.day,
         month     |-> md.month,
         dayOfWeek |-> (days + 1) % 7]

\* the instants at which a scheduler is made: a minute, and half a minute,
\* before midnight of Monday 2024-01-08
Starts == {7 * 86400 - 60, 7 * 86400 - 30}

\* reflect: the types of the callables and arguments given to AddJob
Func(in) == [kind |-> "func", in |-> in]

Fns == {NilFn, [kind |-> "int", in |-> <<>>],
        Func(<<>>), Func(<<"string">>), Func(<<"error">>)}

\* the dynamic types of the arguments; "nil" is the untyped nil, whose
\* reflect.TypeOf is nil
ArgLists == {<<>>, <<"string">>, <<"nil">>, <<"*errors.errorString">>}

IsInterface(t1) == t1 \in {"error", "interface{}"}

Implements(t2, t1) ==
    t1 = "interface{}" \/ (t1 = "error" /\ t2 = "*errors.errorString")

RECURSIVE checkArgs(_, _, _)
\* lines 79-92: the parameters in[i..] against the arguments; "panic" is the
\* nil dereference of t2.Implements(t1) when t2 is the nil reflect.Type
checkArgs(in, args, i) ==
    IF i > Len(in) THEN "ok"
    ELSE LET t1 == in[i]
             t2 == args[i]
         IN  IF t1 # t2
             THEN IF ~IsInterface(t1) THEN "error"
                  ELSE IF t2 = "nil" THEN "panic"
                  ELSE IF ~Implements(t2, t1) THEN "error"
                  ELSE checkArgs(in, args, i + 1)
             ELSE checkArgs(in, args, i + 1)

\* lines 64-99: how the call AddJob(schedule, fn, args...) ends, and the job
\* it appends when it returns nil; p is what parseSchedule(schedule) does
AddJobOutcome(p, fn, args) ==
    IF p.out # "ok" THEN [ret |-> p.out, job |-> NoJob]
    ELSE IF fn.kind # "func" THEN [ret |-> "error", job |-> NoJob]
    ELSE IF Len(args) # Len(fn.in) THEN [ret |-> "error", job |-> NoJob]
    ELSE IF checkArgs(fn.in, args, 1) # "ok"
         THEN [ret |-> checkArgs(fn.in, args, 1), job |-> NoJob]
         ELSE [ret |-> "ok", job |-> [sched |-> p.j, fn |-> fn, args |-> args]]

\* the schedules given to AddJob: two of the README, one of five fields,
\* one with a step of 0
CronExprs ==
    { Join(<<Star, Star, Star, Star, Star, Star>>, Blank),
      Join(<<<<"0">>, <<"0">>, <<"0">>, Star, Star, <<"1">>>>, Blank),
      Join(<<Star, Star, Star, Star, Star>>, Blank),
      Join(<<<<"*", "/", "0">>, Star, Star, Star, Star, Star>>, Blank) }

\* parseSchedule of each of them (line 65)
ParsedCron == [e \in CronExprs |-> parseSchedule(e)]

RECURSIVE SeqToBag(_)
SeqToBag(js) ==
    IF Len(js) = 0 THEN EmptyBag ELSE SetToBag({Head(js)}) (+) SeqToBag(Tail(js))

Called(op, ret) == [op |-> op, ret |-> ret, job |-> NoJob, wasStopped |-> stopped]

\* New (crontab.go:44-61): the ticker is made and the loop goroutine started
Init ==
    /\ jobs = <<>>
    /\ start \in Starts
    /\ fired = 0
    /\ stopped = FALSE
    /\ tickerC = <<>>
    /\ loop = LoopWaiting
    /\ running = EmptyBag
    /\ client = ClientIdle(0)
    /\ lastOp = NoCall
    /\ PartIdle
    /\ SchedIdle

\* the process is alive: no goroutine has died of a fault
Alive == loop.pc # "crashed"

CanCall == Alive /\ client.pc = "idle" /\ client.n < MaxCalls

\* a job goroutine in job.run: st is "call" while the callable runs and
\* "panic" once it has panicked and the deferred function is to run
Exec(j) == [job |-> j, st |-> "call"]

Execs(js) == SeqToBag([i \in 1..Len(js) |-> Exec(js[i])])

\* what a load of a job finds in memory that holds no job of c.jobs
Garbage == [sched |-> EmptyJob, fn |-> [kind |-> "garbage", in |-> <<>>], args |-> <<>>]

\* c.jobs is a slice header of three words (pointer, length, capacity) that
\* AddJob (line 95) and Clear (line 115) store, and runScheduled (line 128)
\* loads, with no lock and no atomic: a load that overlaps a store of the
\* header finds the old header, the new one, or words of both.  New pointer
\* with old length: after append, the old jobs; after Clear, as many loads
\* outside the empty array as there were jobs.  Old pointer with new length:
\* after Clear, nothing; after append, the old jobs and one load past them.
Observed(old, new, op) ==
    {old, new} \cup
    (IF op = "AddJob" THEN {Append(old, Garbage)}
     ELSE {[i \in 1..Len(old) |-> Garbage]})

\* Crontab.AddJob (crontab.go:64-99), up to the assignment of line 95
AddJob ==
    /\ CanCall
    /\ \E schedule \in CronExprs, fn \in Fns, args \in ArgLists :
           LET o == AddJobOutcome(ParsedCron[schedule], fn, args)
           IN  IF o.ret = "ok"
               THEN /\ client' = [pc |-> "store", n |-> client.n, op |-> "AddJob",
                                  next |-> Append(jobs, o.job), job |-> o.job]
                    /\ lastOp' = lastOp
               ELSE /\ client' = [ClientIdle(client.n + 1) EXCEPT
                                     !.pc = IF o.ret = "diverges" THEN "hung" ELSE "idle"]
                    /\ lastOp' = [Called("AddJob", o.ret) EXCEPT !.job = o.job]
    /\ UNCHANGED <<jobs, start, fired, stopped, tickerC, loop, running, partVars, schedVars>>

\* a Shutdown that also closes a channel: the second close panics
ShutdownClosing ==
    /\ CanCall
    /\ stopped' = TRUE
    /\ client' = [client EXCEPT !.n = @ + 1]
    /\ lastOp' = Called("Shutdown", IF stopped THEN "panic" ELSE "ok")
    /\ UNCHANGED <<jobs, start, fired, tickerC, loop, running, partVars, schedVars>>

\* Crontab.Shutdown (crontab.go:109-111): ticker.Stop() sends no more ticks;
\* it neither closes nor drains the channel
Shutdown ==
    /\ CanCall
    /\ stopped' = TRUE
    /\ client' = [client EXCEPT !.n = @ + 1]
    /\ lastOp' = Called("Shutdown", "ok")
    /\ UNCHANGED <<jobs, start, fired, tickerC, loop, running, partVars, schedVars>>

\* Crontab.Clear (crontab.go:114-116), up to the assignment of line 115
Clear ==
    /\ CanCall
    /\ client' = [pc |-> "store", n |-> client.n, op |-> "Clear",
                  next |-> <<>>, job |-> NoJob]
    /\ UNCHANGED <<jobs, lastOp, start, fired, stopped, tickerC, loop, running,
                   partVars, schedVars>>

\* the assignment to c.jobs of AddJob (line 95) or Clear (line 115) is
\* complete and the method returns
StoreDone ==
    /\ Alive
    /\ client.pc = "store"
    /\ jobs' = client.next
    /\ client' = ClientIdle(client.n + 1)
    /\ lastOp' = [Called(client.op, "ok") EXCEPT !.job = client.job]
    /\ UNCHANGED <<start, fired, stopped, tickerC, loop, running, partVars, schedVars>>

\* a RunAll that asks each job's tick, as runScheduled does
RunAllDue ==
    /\ CanCall
    /\ running' = running (+) Execs(SelectSeq(jobs, LAMBDA j : tick(j.sched, getTick(start))))
    /\ client' = [client EXCEPT !.n = @ + 1]
    /\ lastOp' = Called("RunAll", "ok")
    /\ UNCHANGED <<jobs, start, fired, stopped, tickerC, loop, partVars, schedVars>>

\* Crontab.RunAll (crontab.go:119-123): go j.run() for each job of c.jobs
RunAll ==
    /\ CanCall
    /\ running' = running (+) Execs(jobs)
    /\ client' = [client EXCEPT !.n = @ + 1]
    /\ lastOp' = Called("RunAll", "ok")
    /\ UNCHANGED <<jobs, start, fired, stopped, tickerC, loop, partVars, schedVars>>

\* the runtime's ticker: every Period it sends the time on C unless C, of
\* capacity 1, is full, and then the tick is dropped
TimerFire ==
    /\ Alive
    /\ ~stopped
    /\ fired < MaxFirings
    /\ fired' = fired + 1
    /\ tickerC' = IF tickerC = <<>> THEN <<start + (fired + 1) * Period>> ELSE tickerC
    /\ UNCHANGED <<jobs, start, stopped, loop, running, client, lastOp, partVars, schedVars>>

\* lines 55-56 and 127-128: the loop receives a tick from C and runScheduled
\* loads the header of c.jobs to range over it
LoopReceive ==
    /\ loop.pc = "recv"
    /\ tickerC # <<>>
    /\ tickerC' = <<>>
    /\ \E js \in (IF client.pc = "store"
                  THEN Observed(jobs, client.next, client.op) ELSE {jobs}) :
           loop' = IF js = <<>> THEN LoopWaiting
                   ELSE [pc |-> "run", t |-> Head(tickerC), js |-> js, i |-> 1]
    /\ UNCHANGED <<jobs, start, fired, stopped, running, client, lastOp, partVars, schedVars>>

\* an iteration that starts a due job twice
LoopIterTwice ==
    /\ loop.pc = "run"
    /\ LET j   == loop.js[loop.i]
           nxt == IF loop.i = Len(loop.js) THEN LoopWaiting
                  ELSE [loop EXCEPT !.i = @ + 1]
       IN  \/ /\ j = Garbage
              /\ loop' = [loop EXCEPT !.pc = "crashed"]
              /\ running' = running
           \/ /\ running' = IF j # Garbage /\ tick(j.sched, getTick(loop.t))
                            THEN running (+) SetToBag({Exec(j)}) (+) SetToBag({Exec(j)})
                            ELSE running
              /\ loop' = nxt
    /\ UNCHANGED <<jobs, start, fired, stopped, tickerC, client, lastOp, partVars, schedVars>>

\* lines 128-132: one iteration of the range loop of runScheduled.  A job
\* loaded from memory that holds none has maps and a callable of any value:
\* the map reads of job.tick fault and the process dies, or they find nil
\* maps and the job is not due
LoopIter ==
    /\ loop.pc = "run"
    /\ LET j   == loop.js[loop.i]
           nxt == IF loop.i = Len(loop.js) THEN LoopWaiting
                  ELSE [loop EXCEPT !.i = @ + 1]
       IN  \/ /\ j = Garbage
              /\ loop' = [loop EXCEPT !.pc = "crashed"]
              /\ running' = running
           \/ /\ running' = IF j # Garbage /\ tick(j.sched, getTick(loop.t))
                            THEN running (+) SetToBag({Exec(j)})
                            ELSE running
              /\ loop' = nxt
    /\ UNCHANGED <<jobs, start, fired, stopped, tickerC, client, lastOp, partVars, schedVars>>

\* job.run (crontab.go:136-148): the call of line 146 returns, and run with it
RunReturns ==
    /\ Alive
    /\ \E e \in BagToSet(running) :
           /\ e.st = "call"
           /\ running' = running (-) SetToBag({e})
    /\ UNCHANGED <<jobs, start, fired, stopped, tickerC, loop, client, lastOp, partVars, schedVars>>

\* job.run: the callable, or reflect's Call, panics; the deferred function
\* of lines 137-141 is next
RunPanics ==
    /\ Alive
    /\ \E e \in BagToSet(running) :
           /\ e.st = "call"
           /\ running' = (running (-) SetToBag({e})) (+) SetToBag({[e EXCEPT !.st = "panic"]})
    /\ UNCHANGED <<jobs, start, fired, stopped, tickerC, loop, client, lastOp, partVars, schedVars>>

\* a job.run with no recover: the panic leaves the goroutine and the
\* process dies
RunDies ==
    /\ Alive
    /\ \E e \in BagToSet(running) :
           /\ e.st = "panic"
           /\ running' = running (-) SetToBag({e})
    /\ loop' = [loop EXCEPT !.pc = "crashed"]
    /\ UNCHANGED <<jobs, start, fired, stopped, tickerC, client, lastOp, partVars, schedVars>>

\* job.run, lines 137-141: recover() stops the panic, the error is logged
\* and the goroutine ends
RunRecovers ==
    /\ Alive
    /\ \E e \in BagToSet(running) :
           /\ e.st = "panic"
           /\ running' = running (-) SetToBag({e})
    /\ UNCHANGED <<jobs, start, fired, stopped, tickerC, loop, client, lastOp, partVars, schedVars>>

Next ==
    \/ AddJob \/ Shutdown \/ Clear \/ StoreDone \/ RunAll
    \/ TimerFire \/ LoopReceive \/ LoopIter
    \/ RunReturns \/ RunPanics \/ RunRecovers

Spec == Init /\ [][Next]_vars

\* the Go scheduler runs every runnable goroutine: the loop goroutine, when
\* it can receive or go on ranging, does; nothing is assumed of the job
\* goroutines, whose callables may never return, nor of the caller
SpecFair == Spec /\ WF_vars(LoopReceive) /\ WF_vars(LoopIter)

(***************************************************************************)
(* Claims about the scheduler, checked under Spec.                         *)
(***************************************************************************)
\* a step in which a call of the method op ends (or, for an AddJob that
\* never returns, begins)
CallOf(op) == client'.n = client.n + 1 /\ lastOp'.op = op

\* C8: AddJob either succeeds and appends exactly one job at the end of the
\* collection, leaving the jobs before it as they were, or fails and
\* returns an error with the collection as it was before the call.
C8_AddJobAppendsOrReturnsError ==
    [][CallOf("AddJob") =>
          \/ /\ lastOp'.ret = "ok"
             /\ lastOp'.job # NoJob
             /\ jobs' = Append(jobs, lastOp'.job)
          \/ /\ lastOp'.ret = "error"
             /\ jobs' = jobs]_vars

\* C9: once Shutdown has returned, the loop receives no further firing and
\* dispatches no further job execution.
C9_NoFiringNoDispatchAfterShutdown ==
    [][stopped =>
          /\ ~(tickerC # <<>> /\ tickerC' = <<>>)
          /\ ~(loop.pc = "run" /\ loop' # loop /\ running' # running)]_vars

\* C10: Shutdown on a scheduler that is already stopped returns normally and
\* leaves the stopped ticker, its channel, the job collection, the loop and
\* the running executions as they were.
C10_ShutdownIdempotent ==
    [][(stopped /\ CallOf("Shutdown")) =>
          /\ lastOp'.ret = "ok"
          /\ client'.pc = "idle"
          /\ stopped'
          /\ UNCHANGED <<jobs, start, fired, tickerC, loop, running>>]_vars

\* a second Shutdown has returned, and the tick that was in the channel at
\* the first is still there
C10_Witness ==
    /\ lastOp.op = "Shutdown"
    /\ lastOp.wasStopped
    /\ lastOp.ret = "ok"
    /\ stopped
    /\ tickerC # <<>>

(***************************************************************************)
(* Claims about the collection and the loop, checked under Spec.           *)
(***************************************************************************)
\* a step in which the loop takes a firing from the channel and runScheduled
\* loads c.jobs
Receives == loop.pc = "recv" /\ tickerC # <<>> /\ tickerC' = <<>>

\* the last call that returned is a Clear, and no call is in progress
Cleared == lastOp.op = "Clear" /\ client.pc = "idle"

\* C11: Clear atomically empties the collection: when it returns the
\* collection is empty; a firing or a RunAll that starts after it returned
\* dispatches no job registered before it; a firing concurrent with it
\* observes the whole collection as it was or the empty one, never anything
\* else.
C11_ClearAtomicallyEmpties ==
    [][/\ CallOf("Clear") => jobs' = <<>>
       /\ (Cleared /\ Receives) => loop'.js = <<>>
       /\ (Cleared /\ CallOf("RunAll")) => running' = running
       /\ (Receives /\ client.pc = "store" /\ client.op = "Clear")
              => loop'.js \in {jobs, <<>>}]_vars

\* C14: calling AddJob or Clear while the loop evaluates a firing never
\* gives the loop a corrupted read: what runScheduled ranges over is the
\* collection as it was before the call or as it is after it, and the loop
\* goroutine never dies.
C14_NoCorruptedRead ==
    /\ loop.pc # "crashed"
    /\ \A i \in 1..Len(loop.js) : loop.js[i] # Garbage

\* how many times the job j is in the collection js
Occurrences(js, j) == Cardinality({i \in 1..Len(js) : js[i] = j})

\* C12: RunAll launches exactly one execution of every job that is in the
\* collection when it is called, whatever the job's schedule and the time,
\* each in a goroutine of its own inside job.run, so that the caller returns
\* at once; it leaves the collection, the loop and the other executions as
\* they were.
C12_RunAllLaunchesEveryJobOnce ==
    [][CallOf("RunAll") =>
          /\ \A e \in BagToSet(running') \cup {Exec(jobs[i]) : i \in 1..Len(jobs)} :
                 CopiesIn(e, running') =
                     CopiesIn(e, running)
                         + (IF e.st = "call" THEN Occurrences(jobs, e.job) ELSE 0)
          /\ lastOp'.ret = "ok"
          /\ client'.pc = "idle"
          /\ UNCHANGED <<jobs, loop, tickerC, stopped>>]_vars

\* RunAll has returned before any firing, and a job that is not due at the
\* time is executing
C12_Witness ==
    /\ lastOp.op = "RunAll"
    /\ fired = 0
    /\ \E e \in BagToSet(running) :
           /\ e.job \in {jobs[i] : i \in 1..Len(jobs)}
           /\ ~tick(e.job.sched, getTick(start))

\* the executions of b whose callable has panicked
Panicked(b) == {e \in BagToSet(b) : e.st = "panic"}

\* a step of a failing execution: its callable panics, or the panic is dealt
\* with and the execution is over
FailureStep ==
    \E e \in Panicked(running) \cup Panicked(running') :
        CopiesIn(e, running') # CopiesIn(e, running)

Evaluates == loop.pc = "run" /\ loop' # loop

\* the schedule j holds at the instant t: every field but the two of the
\* day holds, and the day does by the rule of C2
DueAt(j, t) ==
    LET c == getTick(t)
    IN  /\ c.second \in j.second /\ c.min \in j.min
        /\ c.hour \in j.hour /\ c.month \in j.month
        /\ IF Cardinality(j.day) = 31 \/ Cardinality(j.dayOfWeek) = 7
           THEN c.day \in j.day /\ c.dayOfWeek \in j.dayOfWeek
           ELSE c.day \in j.day \/ c.dayOfWeek \in j.dayOfWeek

\* C16: with no concurrent change of the collection, the loop evaluates every
\* job of the collection once against the firing: it ranges over the jobs as
\* they are when the firing is received, starts one execution of a job that
\* is due at the firing's time and none of a job that is not; an execution
\* that failed is not started again, executions start only in the loop's
\* evaluation of a firing and in RunAll.
C16_EachJobEvaluatedOncePerFiring ==
    [][/\ (Receives /\ client.pc # "store") =>
              /\ loop'.js = jobs
              /\ jobs # <<>> => (loop'.pc = "run" /\ loop'.i = 1 /\ loop'.t = Head(tickerC))
       /\ (Evaluates /\ loop.js[loop.i] # Garbage) =>
              LET j == loop.js[loop.i]
                  k == IF DueAt(j.sched, loop.t) THEN 1 ELSE 0
              IN  /\ CopiesIn(Exec(j), running') = CopiesIn(Exec(j), running) + k
                  /\ BagCardinality(running') = BagCardinality(running) + k
                  /\ loop' = IF loop.i = Len(loop.js) THEN LoopWaiting
                             ELSE [loop EXCEPT !.i = @ + 1]
       /\ BagCardinality(running') > BagCardinality(running)
              => (Evaluates \/ CallOf("RunAll"))]_vars

\* two jobs were added and the firing of half a minute past midnight has
\* been evaluated: the job of every second is executing, once, and the job
\* of Monday midnight is not
C16_Witness ==
    /\ fired = 1 /\ tickerC = <<>> /\ loop = LoopWaiting
    /\ client.n = 2 /\ lastOp.op = "AddJob" /\ Len(jobs) = 2
    /\ \E i, k \in 1..2 :
           /\ DueAt(jobs[i].sched, start + Period)
           /\ ~DueAt(jobs[k].sched, start + Period)
           /\ running = SetToBag({Exec(jobs[i])})

\* the instants of the minute that ends with the firing at t
MinuteBefore(t) == (t - Period + 1)..t

\* C15: on a scheduler made by New at any instant, a job whose second field
\* is restricted, such as `0 0 0 * * 1`, is dispatched in every minute that
\* contains an instant at which its schedule holds: when the loop evaluates
\* the firing that ends such a minute, it starts an execution of the job.
C15_DispatchedInEveryDueMinute ==
    [][(/\ Evaluates
        /\ loop.js[loop.i] # Garbage
        /\ \E u \in MinuteBefore(loop.t) : DueAt(loop.js[loop.i].sched, u))
          => CopiesIn(Exec(loop.js[loop.i]), running')
                 = CopiesIn(Exec(loop.js[loop.i]), running) + 1]_vars

(***************************************************************************)
(* A claim about progress of the loop, checked under SpecFair.             *)
(***************************************************************************)
\* C17: dispatch never blocks the loop: whatever the executions do, running
\* or hung for ever, the loop finishes the evaluation of the firing it is
\* at, and every firing delivered to the channel is eventually received and
\* evaluated.
C17_FiringsEventuallyEvaluated ==
    /\ (loop.pc = "run") ~> (loop.pc = "recv")
    /\ (tickerC # <<>>) ~> (tickerC = <<>>)

(***************************************************************************)
(* Further claims about parsePart, checked under SpecPart.                 *)
(***************************************************************************)
\* a decimal integer, with or without a sign
IsIntegerText(s) ==
    \/ AllDigits(s)
    \/ (Len(s) >= 2 /\ s[1] \in {"+", "-"} /\ AllDigits(SubSeq(s, 2, Len(s))))

\* exactly `*`, exactly <base>/<step>, or a comma list of integers and ranges
WellFormed(s) ==
    \/ s = Star
    \/ IsStepForm(s)
    \/ LET terms == Split(s, ",")
       IN  \A i \in 1..Len(terms) : IsIntegerText(terms[i]) \/ IsRange(terms[i])

\* C18: parsePart returns a schedule-syntax error for every field text that
\* is not exactly `*`, not exactly <base>/<step> and not a comma list of
\* integers and ranges; text after the step digits, an empty base, or a step
\* form followed by a comma list is never accepted.
C18_MalformedFieldIsError ==
    (res.out # "none" /\ ~WellFormed(text)) => res.out = "error"

\* C19: parsePart terminates, with a set or an error, for every field text
\* and bound, a step of 0 included.
C19_ParsePartTerminates ==
    res.out # "none" => res.out \in {"ok", "error"}

====
